---- MODULE Spec2Model ----
(***************************************************************************)
(* tvprog: fetch -> parse -> filter -> map -> print (src/main.rs).         *)
(* The state is the parsed feed (Xml), the position of the lazy iterator   *)
(* chain inside filter_programs, the Vec<Program> being collected, the     *)
(* local clock read by is_evening_program and the lines written to         *)
(* standard output.                                                        *)
(***************************************************************************)
EXTENDS Integers, Sequences, FiniteSets, TLC

VARIABLES
    channels,             \* xml.channels : Vec<XMLChannel>
    programs,             \* xml.programs : Vec<XMLProgram>
    filtered_channel_ids, \* local of filter_programs
    pc,                   \* "main" | "iter" | "done" | "panicked"
    next_program,         \* index of the next item of xml.programs.iter()
    filtered_programs,    \* the Vec<Program> collected so far
    today,                \* the local calendar date, as Local::today() reads it
    ticks,                \* number of midnights passed since the start of the run
    stdout,               \* lines printed so far
    judged                \* history: for each item consumed, what the chain did with it

vars == <<channels, programs, filtered_channel_ids, pc, next_program,
          filtered_programs, today, ticks, stdout, judged>>

------------------------------------------------------------------------------
(* Bounds of the model *)

MaxChannels == 2
MaxPrograms == 2
MaxTicks == 1
MaxTitleLen == 57

------------------------------------------------------------------------------
(* Program constants *)

CHANNELS ==
    { "TF1", "France 2", "France 3", "Canal+", "France 5", "M6", "Arte", "C8",
      "W9", "TMC", "TFX", "NRJ 12", "France 4", "CSTAR", "L'Equipe", "6ter",
      "RMC Story", "RMC Découverte", "Chérie 25" }

TitleLimit == 55

MinimumDurationMinutes == 35

\* NaiveTime::from_hms(h, m, s) as seconds since midnight
from_hms(h, m, s) == h * 3600 + m * 60 + s

minimum_program_start == from_hms(20, 45, 0)

maximum_program_start == from_hms(21, 20, 0)

------------------------------------------------------------------------------
(* chrono: calendar, parsing with "%Y%m%d%H%M%S %z", durations *)

IsLeapYear(y) == (y % 4 = 0 /\ y % 100 # 0) \/ y % 400 = 0

DaysInMonth(y, m) ==
    IF m = 2 THEN (IF IsLeapYear(y) THEN 29 ELSE 28)
    ELSE IF m \in {4, 6, 9, 11} THEN 30 ELSE 31

\* days since 1970-01-01 of a proleptic Gregorian date
DaysFromCivil(y, m, d) ==
    LET yy  == IF m <= 2 THEN y - 1 ELSE y
        era == yy \div 400
        yoe == yy - era * 400
        mp  == IF m > 2 THEN m - 3 ELSE m + 9
        doy == (153 * mp + 2) \div 5 + d - 1
        doe == yoe * 365 + yoe \div 4 - yoe \div 100 + doy
    IN  era * 146097 + doe - 719468

\* the date after <<y, m, d>>
NextDay(date) ==
    LET y == date[1]
        m == date[2]
        d == date[3]
    IN  IF d < DaysInMonth(y, m) THEN <<y, m, d + 1>>
        ELSE IF m < 12 THEN <<y, m + 1, 1>>
        ELSE <<y + 1, 1, 1>>

\* A timestamp attribute of the feed is modelled by what the text holds:
\* shape = the text is 14 digits, one space, a sign and 4 digits; the fields
\* are the numbers those digits spell (off = the signed HHMM number).
RawTimestamp(shape, y, mo, d, h, mi, s, off) ==
    [shape |-> shape, y |-> y, mo |-> mo, d |-> d, h |-> h, mi |-> mi, s |-> s, off |-> off]

Abs(n) == IF n < 0 THEN -n ELSE n

\* DateTime::parse_from_str(text, "%Y%m%d%H%M%S %z"): ok = FALSE is the Err
\* that .unwrap() turns into a panic.  date and time are the wall-clock
\* components in the timestamp's own offset; offset is in seconds east.
parse_from_str(raw) ==
    LET offh == Abs(raw.off) \div 100
        offm == Abs(raw.off) % 100
        valid == /\ raw.shape
                 /\ raw.mo \in 1..12
                 /\ raw.d >= 1
                 /\ raw.d <= DaysInMonth(raw.y, raw.mo)
                 /\ raw.h \in 0..23
                 /\ raw.mi \in 0..59
                 /\ raw.s \in 0..59
                 /\ offm \in 0..59
        secs == offh * 3600 + offm * 60
    IN  IF valid
        THEN [ok     |-> TRUE,
              date   |-> <<raw.y, raw.mo, raw.d>>,
              time   |-> from_hms(raw.h, raw.mi, raw.s),
              offset |-> IF raw.off < 0 THEN -secs ELSE secs]
        ELSE [ok |-> FALSE, date |-> <<1970, 1, 1>>, time |-> 0, offset |-> 0]

\* a.signed_duration_since(b), in seconds, for two parsed DateTime<FixedOffset>
signed_duration_since(a, b) ==
    (DaysFromCivil(a.date[1], a.date[2], a.date[3])
       - DaysFromCivil(b.date[1], b.date[2], b.date[3])) * 86400
    + (a.time - a.offset) - (b.time - b.offset)

\* Duration::num_minutes(): whole minutes, truncated toward zero
num_minutes(seconds) ==
    IF seconds >= 0 THEN seconds \div 60 ELSE -((-seconds) \div 60)

\* DateTime::format("%H:%M")
format_hm(dt) == <<dt.time \div 3600, (dt.time % 3600) \div 60>>

------------------------------------------------------------------------------
(* The program's functions *)

\* (variant) the channel filter lets every program through
contains_anything(vec, x) == TRUE

\* Vec::contains / slice::contains
contains(vec, x) == \E k \in 1..Len(vec) : vec[k] = x

\* (variant) every channel id of the feed, whitelisted or not
filter_channel_ids_unfiltered(chs) == [k \in 1..Len(chs) |-> chs[k].id]

\* channels.into_iter().filter(CHANNELS.contains(display_name)).map(id).collect()
RECURSIVE filter_channel_ids(_)
filter_channel_ids(chs) ==
    IF chs = <<>> THEN <<>>
    ELSE IF Head(chs).display_name \in CHANNELS
         THEN <<Head(chs).id>> \o filter_channel_ids(Tail(chs))
         ELSE filter_channel_ids(Tail(chs))

\* (variant) the month of the start is not compared with the current month
is_evening_program_no_month(start_date, end_date, now) ==
    LET start_parsed == parse_from_str(start_date)
        end_parsed   == parse_from_str(end_date)
        duration     == signed_duration_since(end_parsed, start_parsed)
    IN  /\ now[1] = start_parsed.date[1]
        /\ now[3] = start_parsed.date[3]
        /\ start_parsed.time > minimum_program_start
        /\ start_parsed.time < maximum_program_start
        /\ num_minutes(duration) > MinimumDurationMinutes

\* (variant) the start is not compared with the current date at all
is_evening_program_any_day(start_date, end_date, now) ==
    LET start_parsed == parse_from_str(start_date)
        end_parsed   == parse_from_str(end_date)
        duration     == signed_duration_since(end_parsed, start_parsed)
    IN  /\ start_parsed.time > minimum_program_start
        /\ start_parsed.time < maximum_program_start
        /\ num_minutes(duration) > MinimumDurationMinutes

\* (variant) only the start timestamp is unwrapped
timestamps_parse_start_only(program) == parse_from_str(program.start).ok

\* both .unwrap() of is_evening_program succeed
timestamps_parse(program) ==
    /\ parse_from_str(program.start).ok
    /\ parse_from_str(program.stop).ok

\* the boolean is_evening_program returns once both timestamps have parsed;
\* now is the date Local::today() returned
is_evening_program(start_date, end_date, now) ==
    LET start_parsed == parse_from_str(start_date)
        end_parsed   == parse_from_str(end_date)
        duration     == signed_duration_since(end_parsed, start_parsed)
    IN  /\ now[1] = start_parsed.date[1]
        /\ now[2] = start_parsed.date[2]
        /\ now[3] = start_parsed.date[3]
        /\ start_parsed.time > minimum_program_start
        /\ start_parsed.time < maximum_program_start
        /\ num_minutes(duration) > MinimumDurationMinutes

\* channels.into_iter().find(|channel| channel.id == channel_id): the first
\* match, found = FALSE being the None that .unwrap() turns into a panic
RECURSIVE find_channel(_, _)
find_channel(channel_id, chs) ==
    IF chs = <<>> THEN [found |-> FALSE, display_name |-> ""]
    ELSE IF Head(chs).id = channel_id
         THEN [found |-> TRUE, display_name |-> Head(chs).display_name]
         ELSE find_channel(channel_id, Tail(chs))

channel_id_to_name(channel_id, chs) == find_channel(channel_id, chs).display_name

\* bytes of the UTF-8 encoding of a char
Utf8Len(c) == IF c = "é" THEN 2 ELSE 1

\* (variant) the limit counts bytes instead of chars
RECURSIVE str_truncate_bytes(_, _)
str_truncate_bytes(string, limit) ==
    IF string = <<>> \/ limit < Utf8Len(Head(string)) THEN <<>>
    ELSE <<Head(string)>> \o str_truncate_bytes(Tail(string), limit - Utf8Len(Head(string)))

\* string.chars().take(limit).collect(); a string is the sequence of its chars
RECURSIVE str_truncate(_, _)
str_truncate(string, limit) ==
    IF limit = 0 \/ string = <<>> THEN <<>>
    ELSE <<Head(string)>> \o str_truncate(Tail(string), limit - 1)

\* the Program built by the .map closure of filter_programs
MapProgram(program, chs) ==
    [start   |-> parse_from_str(program.start),
     end     |-> parse_from_str(program.stop),
     title   |-> program.title,
     channel |-> channel_id_to_name(program.channel, chs)]

\* the lines pretty_print writes for one list of programs
Border(kind) == [kind |-> kind]

DataRow(program) ==
    [kind     |-> "row",
     channel  |-> program.channel,
     title    |-> str_truncate(program.title, TitleLimit),
     horaires |-> <<format_hm(program.start), format_hm(program.end)>>]

\* (variant) the data rows come out last program first
PrintedTableReversed(progs) ==
    <<Border("top"), Border("header"), Border("separator")>>
    \o [k \in 1..Len(progs) |-> DataRow(progs[Len(progs) + 1 - k])]
    \o <<Border("bottom")>>

PrintedTable(progs) ==
    <<Border("top"), Border("header"), Border("separator")>>
    \o [k \in 1..Len(progs) |-> DataRow(progs[k])]
    \o <<Border("bottom")>>

------------------------------------------------------------------------------
(* Actions *)

Judgement(verdict) == [index |-> next_program, now |-> today, verdict |-> verdict]

\* filter_programs, up to the construction of the iterator chain
filter_programs_begin ==
    /\ pc = "main"
    /\ filtered_channel_ids' = filter_channel_ids(channels)
    /\ pc' = "iter"
    /\ UNCHANGED <<channels, programs, next_program, filtered_programs, today,
                   ticks, stdout, judged>>

\* one item pulled through .filter(..).filter(..).map(..) by collect()
filter_programs_next ==
    /\ pc = "iter"
    /\ next_program <= Len(programs)
    /\ LET program == programs[next_program]
       IN  IF ~contains(filtered_channel_ids, program.channel)
           THEN \* first filter: dropped before anything is parsed
                /\ judged' = Append(judged, Judgement("not_whitelisted"))
                /\ next_program' = next_program + 1
                /\ UNCHANGED <<pc, filtered_programs>>
           ELSE IF ~timestamps_parse(program)
           THEN \* .unwrap() in is_evening_program
                /\ judged' = Append(judged, Judgement("panic_timestamp"))
                /\ pc' = "panicked"
                /\ UNCHANGED <<next_program, filtered_programs>>
           ELSE IF ~is_evening_program(program.start, program.stop, today)
           THEN /\ judged' = Append(judged, Judgement("not_evening"))
                /\ next_program' = next_program + 1
                /\ UNCHANGED <<pc, filtered_programs>>
           ELSE IF ~find_channel(program.channel, channels).found
           THEN \* .unwrap() in channel_id_to_name
                /\ judged' = Append(judged, Judgement("panic_lookup"))
                /\ pc' = "panicked"
                /\ UNCHANGED <<next_program, filtered_programs>>
           ELSE /\ judged' = Append(judged, Judgement("kept"))
                /\ filtered_programs' = Append(filtered_programs, MapProgram(program, channels))
                /\ next_program' = next_program + 1
                /\ UNCHANGED pc
    /\ UNCHANGED <<channels, programs, filtered_channel_ids, today, ticks, stdout>>

\* the iterator is exhausted: collect() returns, main calls pretty_print and
\* returns Ok(())
pretty_print ==
    /\ pc = "iter"
    /\ next_program > Len(programs)
    /\ stdout' = stdout \o PrintedTable(filtered_programs)
    /\ pc' = "done"
    /\ UNCHANGED <<channels, programs, filtered_channel_ids, next_program,
                   filtered_programs, today, ticks, judged>>

\* the local clock passes midnight while the run is in progress
Midnight ==
    /\ pc \in {"main", "iter"}
    /\ ticks < MaxTicks
    /\ today' = NextDay(today)
    /\ ticks' = ticks + 1
    /\ UNCHANGED <<channels, programs, filtered_channel_ids, pc, next_program,
                   filtered_programs, stdout, judged>>

Next ==
    \/ filter_programs_begin
    \/ filter_programs_next
    \/ pretty_print
    \/ Midnight

------------------------------------------------------------------------------
(* Inputs *)

SeqsUpTo(S, n) == UNION { [1..k -> S] : k \in 0..n }

XMLChannel(id, display_name) == [id |-> id, display_name |-> display_name]

XMLProgram(start, stop, channel, title) ==
    [start |-> start, stop |-> stop, channel |-> channel, title |-> title]

\* a title of n characters; "é" is one char and two bytes
Title(n, accented) ==
    [k \in 1..n |-> IF accented /\ k % 2 = 0 THEN "é" ELSE IF k % 3 = 0 THEN "b" ELSE "a"]

Day1 == <<2024, 3, 9>>

Garbage == RawTimestamp(FALSE, 0, 0, 0, 0, 0, 0, 0)

At(date, h, mi, s, off) == RawTimestamp(TRUE, date[1], date[2], date[3], h, mi, s, off)

\* Feeds of the whole pipeline: duplicate ids, names that differ from a
\* whitelisted one by case only, programs on ids the channel list lacks,
\* unparsable timestamps, programs of two consecutive days.
FeedChannels ==
    { XMLChannel("C1", "TF1"), XMLChannel("C1", "BFM TV"), XMLChannel("C2", "tf1") }

FeedStarts ==
    { Garbage, At(Day1, 20, 50, 0, 100), At(NextDay(Day1), 20, 52, 0, 100) }

FeedStops ==
    { Garbage, At(Day1, 21, 30, 0, 100), At(NextDay(Day1), 21, 30, 0, 100) }

FeedPrograms ==
    { XMLProgram(st, sp, ch, Title(TitleLimit + 1, FALSE)) :
        st \in FeedStarts, sp \in FeedStops, ch \in {"C1", "C2"} }

InitRun ==
    /\ filtered_channel_ids = <<>>
    /\ pc = "main"
    /\ next_program = 1
    /\ filtered_programs = <<>>
    /\ ticks = 0
    /\ stdout = <<>>
    /\ judged = <<>>

Init ==
    /\ channels \in SeqsUpTo(FeedChannels, MaxChannels)
    /\ programs \in SeqsUpTo(FeedPrograms, MaxPrograms)
    /\ today = Day1
    /\ InitRun

Spec == Init /\ [][Next]_vars

\* Inputs of the evening-window predicate: one program on a whitelisted
\* channel, its start around both ends of the window, its stop around the
\* minimum duration, dates that differ from one another in the day, the month
\* or the year only, and two UTC offsets.
WindowDates == { Day1, NextDay(Day1), <<2024, 4, 9>>, <<2025, 3, 9>> }

WindowOffsets == { 100, 200 }

WindowStartTimes ==
    { <<20, 44, 59>>, <<20, 45, 0>>, <<20, 45, 1>>, <<20, 50, 0>>,
      <<21, 19, 59>>, <<21, 20, 0>>, <<21, 20, 1>> }

WindowStopTimes ==
    { <<20, 0, 0>>, <<21, 25, 0>>, <<21, 25, 1>>, <<21, 25, 59>>, <<21, 26, 0>>,
      <<22, 26, 0>> }

WindowStarts ==
    { At(d, t[1], t[2], t[3], o) : d \in WindowDates, t \in WindowStartTimes, o \in WindowOffsets }

WindowStops ==
    { At(d, t[1], t[2], t[3], o) : d \in WindowDates, t \in WindowStopTimes, o \in WindowOffsets }

InitWindow ==
    /\ channels = <<XMLChannel("C1", "TF1")>>
    /\ programs \in { <<XMLProgram(st, sp, "C1", Title(3, FALSE))>> :
                        st \in WindowStarts, sp \in WindowStops }
    /\ today \in WindowDates
    /\ InitRun

SpecWindow == InitWindow /\ [][Next]_vars

\* Inputs of the title column: one program that passes every filter, its
\* title of every length up to MaxTitleLen, with and without two-byte chars.
InitTitles ==
    /\ channels = <<XMLChannel("C1", "TF1")>>
    /\ programs \in { <<XMLProgram(At(Day1, 20, 50, 0, 100), At(Day1, 21, 30, 0, 100),
                                   "C1", Title(n, a))>> :
                        n \in 0..MaxTitleLen, a \in BOOLEAN }
    /\ today = Day1
    /\ InitRun

SpecTitles == InitTitles /\ [][Next]_vars

------------------------------------------------------------------------------
(* Vocabulary of the properties *)

Min(a, b) == IF a <= b THEN a ELSE b

\* the feed has a channel with this id
InFeed(id) == \E k \in 1..Len(channels) : channels[k].id = id

\* the id belongs to a feed channel whose display name is a whitelist name
Whitelisted(id) ==
    \E k \in 1..Len(channels) :
        channels[k].id = id /\ channels[k].display_name \in CHANNELS

IsKept(j) == j.verdict = "kept"

IsRow(line) == line.kind = "row"

Kept == SelectSeq(judged, IsKept)

Rows == SelectSeq(stdout, IsRow)

Judged(k) == programs[judged[k].index]

\* a timestamp text has the fixed format and spells a date and a time
WellFormed(raw) ==
    /\ raw.shape
    /\ raw.mo \in 1..12 /\ raw.d \in 1..DaysInMonth(raw.y, raw.mo)
    /\ raw.h < 24 /\ raw.mi < 60 /\ raw.s < 60

Malformed(program) == ~WellFormed(program.start) \/ ~WellFormed(program.stop)

\* the calendar date and the time of day a timestamp text spells
WrittenDate(raw) == <<raw.y, raw.mo, raw.d>>

WrittenTime(raw) == <<raw.h, raw.mi, raw.s>>

WrittenHM(raw) == <<raw.h, raw.mi>>

TimeAfter(t, u) ==
    \/ t[1] > u[1]
    \/ t[1] = u[1] /\ t[2] > u[2]
    \/ t[1] = u[1] /\ t[2] = u[2] /\ t[3] > u[3]

\* strictly after 20:45:00 and strictly before 21:20:00
InStartWindow(raw) ==
    /\ TimeAfter(WrittenTime(raw), <<20, 45, 0>>)
    /\ TimeAfter(<<21, 20, 0>>, WrittenTime(raw))

\* stop minus start, in seconds
DurationSeconds(program) ==
    signed_duration_since(parse_from_str(program.stop), parse_from_str(program.start))

\* the program would pass the evening predicate on the date it starts
EveningOnItsOwnDate(program) ==
    /\ ~Malformed(program)
    /\ is_evening_program(program.start, program.stop, WrittenDate(program.start))

------------------------------------------------------------------------------
(* C1 *)

\* C1: every program the filter keeps has a channel id that belongs to a
\* feed channel whose display name is one of the 19 whitelist names, whatever
\* its timestamps; the collected programs and the printed data rows are
\* those kept programs and no others.
C1_OnlyWhitelistedKept ==
    /\ Len(filtered_programs) = Len(Kept)
    /\ \A k \in 1..Len(Kept) : Whitelisted(programs[Kept[k].index].channel)
    /\ pc = "done" => Len(Rows) = Len(Kept)

\* a finished run that printed a row and dropped a program that had evening
\* timing but a channel outside the whitelist
C1_Witness ==
    /\ pc = "done"
    /\ Len(Rows) >= 1
    /\ \E k \in 1..Len(judged) :
          /\ ~Whitelisted(Judged(k).channel)
          /\ InFeed(Judged(k).channel)
          /\ EveningOnItsOwnDate(Judged(k))
          /\ WrittenDate(Judged(k).start) = judged[k].now

------------------------------------------------------------------------------
(* C2, C3 *)

\* C2: a program on a whitelisted channel that starts today and lasts more
\* than 35 minutes (stop - start > 2100 s) is accepted if and only if its
\* start time of day is strictly between 20:45:00 and 21:20:00.
C2_WindowGivenLongerThan35Min ==
    \A k \in 1..Len(judged) :
        ( /\ judged[k].verdict \in {"kept", "not_evening"}
          /\ WrittenDate(Judged(k).start) = judged[k].now
          /\ DurationSeconds(Judged(k)) > 35 * 60 )
        => (judged[k].verdict = "kept" <=> InStartWindow(Judged(k).start))

\* C3: a program on a whitelisted channel that starts today inside the start
\* window is accepted if and only if stop - start is strictly greater than
\* 2100 s (so 2101 s is accepted).
C3_DurationToTheSecond ==
    \A k \in 1..Len(judged) :
        ( /\ judged[k].verdict \in {"kept", "not_evening"}
          /\ WrittenDate(Judged(k).start) = judged[k].now
          /\ InStartWindow(Judged(k).start) )
        => (judged[k].verdict = "kept" <=> DurationSeconds(Judged(k)) > 35 * 60)

\* What the code does instead (C2, C3): the duration is compared in whole
\* minutes, so the shortest accepted program lasts 36 minutes; with that
\* duration test the start window is exactly the open interval.
WholeMinutesAccepted ==
    \A k \in 1..Len(judged) :
        ( /\ judged[k].verdict \in {"kept", "not_evening"}
          /\ WrittenDate(Judged(k).start) = judged[k].now )
        => ( judged[k].verdict = "kept"
               <=> /\ InStartWindow(Judged(k).start)
                   /\ DurationSeconds(Judged(k)) >= 36 * 60 )

------------------------------------------------------------------------------
(* C4 *)

\* C4 as stated: a program whose channel id matches no channel of the feed
\* makes the run fail.
C4_UnknownChannelFailsRun ==
    \A k \in 1..Len(judged) : ~InFeed(Judged(k).channel) => pc = "panicked"

\* C4 amended: a program whose channel id matches no channel of the feed is
\* dropped by the channel filter, and the lookup of channel_id_to_name never
\* fails.
C4_UnknownChannelDropped ==
    \A k \in 1..Len(judged) :
        /\ ~InFeed(Judged(k).channel) => judged[k].verdict = "not_whitelisted"
        /\ judged[k].verdict # "panic_lookup"

\* a run that finished although it met a program on an unknown channel that
\* had evening timing on the current date
C4_Witness ==
    /\ pc = "done"
    /\ \E k \in 1..Len(judged) :
          /\ ~InFeed(Judged(k).channel)
          /\ EveningOnItsOwnDate(Judged(k))
          /\ WrittenDate(Judged(k).start) = judged[k].now

------------------------------------------------------------------------------
(* C5 *)

\* C5 as stated: if any program of the feed has a malformed start or stop,
\* nothing is printed.
C5_AnyMalformedAborts ==
    (\E i \in 1..Len(programs) : Malformed(programs[i])) => stdout = <<>>

\* C5 amended: a malformed start or stop aborts the run, with nothing
\* printed, when the program's channel passes the whitelist filter; on any
\* other channel the program is skipped unparsed; what is printed is never a
\* partial table.
C5_WhitelistedMalformedAborts ==
    /\ (\E i \in 1..Len(programs) :
            Malformed(programs[i]) /\ Whitelisted(programs[i].channel))
       => stdout = <<>>
    /\ \A k \in 1..Len(judged) :
            Malformed(Judged(k)) =>
                judged[k].verdict =
                    IF Whitelisted(Judged(k).channel) THEN "panic_timestamp"
                    ELSE "not_whitelisted"
    /\ pc = "panicked" => stdout = <<>>
    /\ stdout # <<>> =>
          /\ pc = "done"
          /\ stdout[1] = Border("top")
          /\ stdout[Len(stdout)] = Border("bottom")
          /\ Len(stdout) = Len(filtered_programs) + 4

\* a run aborted by the unparsable stop of a whitelisted program, after it
\* had kept an earlier program
C5_Witness ==
    /\ pc = "panicked"
    /\ Len(filtered_programs) >= 1
    /\ \E k \in 1..Len(judged) :
          /\ WellFormed(Judged(k).start)
          /\ ~WellFormed(Judged(k).stop)
          /\ judged[k].verdict = "panic_timestamp"

------------------------------------------------------------------------------
(* C6 *)

\* C6: a program whose written start date differs from the date the clock
\* showed when it was evaluated is never kept; every kept program starts on
\* the date that was current at its evaluation.
C6_OtherDateRejected ==
    /\ \A k \in 1..Len(judged) :
          WrittenDate(Judged(k).start) # judged[k].now => judged[k].verdict # "kept"
    /\ \A k \in 1..Min(Len(Kept), Len(filtered_programs)) :
          filtered_programs[k].start.date = Kept[k].now

\* a program rejected only for its date: same year and day, another month
C6_Witness ==
    \E k \in 1..Len(judged) :
        /\ judged[k].verdict = "not_evening"
        /\ EveningOnItsOwnDate(Judged(k))
        /\ Judged(k).start.y = judged[k].now[1]
        /\ Judged(k).start.mo # judged[k].now[2]
        /\ Judged(k).start.d = judged[k].now[3]

------------------------------------------------------------------------------
(* C7 *)

\* the time columns of the programs from the n-th on that pass both filters
RECURSIVE PassingFrom(_)
PassingFrom(n) ==
    IF n > Len(programs) THEN <<>>
    ELSE IF /\ Whitelisted(programs[n].channel)
            /\ ~Malformed(programs[n])
            /\ is_evening_program(programs[n].start, programs[n].stop, judged[n].now)
         THEN <<<<WrittenHM(programs[n].start), WrittenHM(programs[n].stop)>>>>
              \o PassingFrom(n + 1)
         ELSE PassingFrom(n + 1)

\* C7: the table of a finished run is top border, header, separator, one
\* data row per program that passes the whitelist filter and the evening
\* predicate, in feed order, then the bottom border.
C7_RowsArePassingProgramsInOrder ==
    pc = "done" =>
        /\ Len(judged) = Len(programs)
        /\ LET expected == PassingFrom(1)
           IN  /\ Len(stdout) = Len(expected) + 4
               /\ stdout[1] = Border("top")
               /\ stdout[2] = Border("header")
               /\ stdout[3] = Border("separator")
               /\ stdout[Len(stdout)] = Border("bottom")
               /\ \A k \in 1..Len(expected) :
                     /\ stdout[3 + k].kind = "row"
                     /\ stdout[3 + k].horaires = expected[k]

\* a table of two rows with different time columns
C7_Witness ==
    /\ pc = "done"
    /\ Len(Rows) = 2
    /\ Rows[1].horaires # Rows[2].horaires

------------------------------------------------------------------------------
(* C8 *)

\* C8: the title of every data row is the first min(length, 55) chars of the
\* program's title, with nothing appended.
C8_TitlePrefix ==
    pc = "done" =>
        \A k \in 1..Len(Rows) :
            LET title == filtered_programs[k].title
                shown == Rows[k].title
            IN  /\ Len(shown) = Min(Len(title), 55)
                /\ \A c \in 1..Len(shown) : shown[c] = title[c]

\* a 56-char title with two-byte chars shown as its first 55 chars
C8_Witness ==
    /\ pc = "done"
    /\ Len(Rows) = 1
    /\ Len(filtered_programs[1].title) = 56
    /\ \E c \in 1..56 : Utf8Len(filtered_programs[1].title[c]) = 2
    /\ Len(Rows[1].title) = 55

------------------------------------------------------------------------------
(* C9 *)

\* C9: the channel name of every printed row is one of the 19 whitelist
\* names, also when two channels of the feed share an id.
C9_RowNamesWhitelisted ==
    \A k \in 1..Len(Rows) : Rows[k].channel \in CHANNELS

------------------------------------------------------------------------------
(* C10 *)

\* C10 as stated: all programs kept in one run start on the same date, even
\* if midnight passes during the run.
C10_OneDatePerRun ==
    \A j, k \in 1..Len(filtered_programs) :
        filtered_programs[j].start.date = filtered_programs[k].start.date

\* C10 amended: two programs kept in one run start on the same date when the
\* clock showed the same date at their evaluations, in particular when no
\* midnight passed during the run.
C10_OneDatePerClockReading ==
    \A j, k \in 1..Min(Len(Kept), Len(filtered_programs)) :
        (ticks = 0 \/ Kept[j].now = Kept[k].now)
        => filtered_programs[j].start.date = filtered_programs[k].start.date

\* two programs kept in a run during which midnight passed before the first
\* of them was evaluated
C10_Witness ==
    /\ pc = "done"
    /\ ticks = 1
    /\ Len(filtered_programs) = 2
    /\ Len(Kept) = 2
    /\ Kept[1].now = Kept[2].now

====
